---- MODULE Spec2Model ----
(***************************************************************************)
(* Model of the Vara-Lab/Workshop programs.                                *)
(*                                                                         *)
(* VFT (src/VFT/app/src/services/service.rs): a role-gated fungible token  *)
(* ledger.  The state is the balance map and total supply of the embedded  *)
(* vft_service Storage plus the three role sets of ExtendedStorage.  Every *)
(* exported method of ExtendedService is one action; a method call runs to *)
(* completion before the next one is admitted, and a panic aborts the      *)
(* message, so a panicking call leaves the program state as it was.        *)
(*                                                                         *)
(* U256 is modelled as an unsigned integer of Bits bits, with the checked  *)
(* arithmetic of the source (checked_add / checked_sub).                   *)
(*                                                                         *)
(* DAO (src/DAO/app/src/services/service.rs): a single voting with an      *)
(* admin, a list of options, a tally and the list of accounts that voted.  *)
(* It is a program of its own: specification SpecDAO runs it with the VFT  *)
(* state left as it is, and Spec and SpecReseed run the VFT program with   *)
(* the DAO state left as it is.                                            *)
(*                                                                         *)
(* VNFT (src/VNFT/app/src/services/service.rs): a role-gated token         *)
(* registry.  ExtendedStorage holds the token id counter, the role sets    *)
(* and the metadata map; the embedded vnft_service Storage holds the owner *)
(* map, the per-owner token sets and the approvals.  Specification         *)
(* SpecVNFT runs it with the VFT and DAO state left as it is.              *)
(***************************************************************************)
EXTENDS Integers, Sequences, FiniteSets, TLC

\* ------------------------------------------------------------------ bounds
\* width of the unsigned integer standing for U256
Bits == 2

\* the actor ids messages come from and balances are held by (two, so that
\* a caller without a role and an account other than the one minted to or
\* burned from exist; the VFT properties also hold with a third id, which
\* takes TLC about a quarter of an hour)
Actors == {"A", "X"}
U256_MAX == 2^Bits - 1
Amounts == 0..U256_MAX

\* ------------------------------------------------------------------- state
VARIABLES
    initialized,    \* EXTENDED_STORAGE and the vft Storage are Some(..)
    admins,         \* ExtendedStorage.admins
    minters,        \* ExtendedStorage.minters
    burners,        \* ExtendedStorage.burners
    balances,       \* Storage::balances(): ActorId -> U256, absent keys omitted
    total_supply,   \* Storage::total_supply()
    events,         \* the events the last call handed to emit_event, in order
    last            \* the last call: its method and its outcome

vars == <<initialized, admins, minters, burners, balances, total_supply, events, last>>

\* the DAO program
VARIABLES
    VOTING_STATE,   \* Option<VotingState>: <<>> or <<the state record>>
    dao_events,     \* the events the last call handed to emit_event, in order
    dao_last        \* the last call: its method and what it returned

daoVars == <<VOTING_STATE, dao_events, dao_last>>

\* the VNFT program
VARIABLES
    EXTENDED_STORAGE,   \* Option<ExtendedStorage>: <<>> or <<the record>>
    owner_by_id,        \* Storage::owner_by_id(): TokenId -> ActorId
    tokens_for_owner,   \* Storage::tokens_for_owner(): ActorId -> set of TokenId
    token_approvals,    \* Storage::token_approvals(): TokenId -> ActorId
    nft_events,         \* the events the last call handed to emit_event, in order
    nft_last            \* the last call: its method and its outcome

nftVars == <<EXTENDED_STORAGE, owner_by_id, tokens_for_owner, token_approvals,
             nft_events, nft_last>>

\* Option<U256>: None is the empty tuple, Some(x) the tuple holding x
None == <<>>
Some(x) == <<x>>
EmptyMap == [a \in {} |-> 0]

\* ------------------------------------------------------- U256 and the map
\* mutant: the sum wraps instead of being checked
wrapping_add(x, y) == Some((x + y) % (U256_MAX + 1))

checked_add(x, y) == IF x + y > U256_MAX THEN None ELSE Some(x + y)

\* mutant: the difference saturates at zero instead of being checked
saturating_sub(x, y) == IF y > x THEN Some(0) ELSE Some(x - y)

checked_sub(x, y) == IF y > x THEN None ELSE Some(x - y)

balance_of(b, a) == IF a \in DOMAIN b THEN b[a] ELSE 0

insert(b, k, v) == [a \in (DOMAIN b) \cup {k} |-> IF a = k THEN v ELSE b[a]]

remove(b, k) == [a \in (DOMAIN b) \ {k} |-> b[a]]

RECURSIVE SumOver(_, _)
SumOver(b, S) ==
    IF S = {} THEN 0
    ELSE LET a == CHOOSE x \in S : TRUE
         IN  b[a] + SumOver(b, S \ {a})

SumBalances(b) == SumOver(b, DOMAIN b)

\* ------------------------------------------------- the ledger primitives
Outcome(res, b, ts) == [result |-> res, balances |-> b, total_supply |-> ts]

\* mutant: the new total supply is computed but never stored
mint_keeps_supply(b, ts, to, value) ==
    IF value = 0 THEN Outcome("false", b, ts)
    ELSE LET new_total_supply == checked_add(ts, value)
             new_to == checked_add(balance_of(b, to), value)
         IN  IF new_total_supply = None THEN Outcome("NumericOverflow", b, ts)
             ELSE IF new_to = None THEN Outcome("NumericOverflow", b, ts)
             ELSE Outcome("true", insert(b, to, new_to[1]), ts)

\* mutant: no early return for a zero value
mint_no_zero_check(b, ts, to, value) ==
    LET new_total_supply == checked_add(ts, value)
        new_to == checked_add(balance_of(b, to), value)
    IN  IF new_total_supply = None THEN Outcome("NumericOverflow", b, ts)
        ELSE IF new_to = None THEN Outcome("NumericOverflow", b, ts)
        ELSE Outcome("true", insert(b, to, new_to[1]), new_total_supply[1])

\* mutant: the receiver's balance is set to the value instead of raised by it
mint_overwrites(b, ts, to, value) ==
    IF value = 0 THEN Outcome("false", b, ts)
    ELSE LET new_total_supply == checked_add(ts, value)
             new_to == checked_add(balance_of(b, to), value)
         IN  IF new_total_supply = None THEN Outcome("NumericOverflow", b, ts)
             ELSE IF new_to = None THEN Outcome("NumericOverflow", b, ts)
             ELSE Outcome("true", insert(b, to, value), new_total_supply[1])

\* pub fn mint(balances, total_supply, to, value) -> Result<bool>
mint(b, ts, to, value) ==
    IF value = 0 THEN Outcome("false", b, ts)
    ELSE LET new_total_supply == checked_add(ts, value)
             new_to == checked_add(balance_of(b, to), value)
         IN  IF new_total_supply = None THEN Outcome("NumericOverflow", b, ts)
             ELSE IF new_to = None THEN Outcome("NumericOverflow", b, ts)
             ELSE Outcome("true", insert(b, to, new_to[1]), new_total_supply[1])

\* mutant: the account's balance is checked before the total supply
burn_balance_first(b, ts, from, value) ==
    IF value = 0 THEN Outcome("false", b, ts)
    ELSE LET new_total_supply == checked_sub(ts, value)
             new_from == checked_sub(balance_of(b, from), value)
         IN  IF new_from = None THEN Outcome("InsufficientBalance", b, ts)
             ELSE IF new_total_supply = None THEN Outcome("Underflow", b, ts)
             ELSE Outcome("true",
                          IF new_from[1] # 0 THEN insert(b, from, new_from[1])
                                             ELSE remove(b, from),
                          new_total_supply[1])

\* mutant: the account's new balance is computed but never stored
burn_keeps_balance(b, ts, from, value) ==
    IF value = 0 THEN Outcome("false", b, ts)
    ELSE LET new_total_supply == checked_sub(ts, value)
             new_from == checked_sub(balance_of(b, from), value)
         IN  IF new_total_supply = None THEN Outcome("Underflow", b, ts)
             ELSE IF new_from = None THEN Outcome("InsufficientBalance", b, ts)
             ELSE Outcome("true", b, new_total_supply[1])

\* mutant: a balance that reaches zero is stored, not removed
burn_stores_zero(b, ts, from, value) ==
    IF value = 0 THEN Outcome("false", b, ts)
    ELSE LET new_total_supply == checked_sub(ts, value)
             new_from == checked_sub(balance_of(b, from), value)
         IN  IF new_total_supply = None THEN Outcome("Underflow", b, ts)
             ELSE IF new_from = None THEN Outcome("InsufficientBalance", b, ts)
             ELSE Outcome("true", insert(b, from, new_from[1]), new_total_supply[1])

\* pub fn burn(balances, total_supply, from, value) -> Result<bool>
burn(b, ts, from, value) ==
    IF value = 0 THEN Outcome("false", b, ts)
    ELSE LET new_total_supply == checked_sub(ts, value)
             new_from == checked_sub(balance_of(b, from), value)
         IN  IF new_total_supply = None THEN Outcome("Underflow", b, ts)
             ELSE IF new_from = None THEN Outcome("InsufficientBalance", b, ts)
             ELSE Outcome("true",
                          IF new_from[1] # 0 THEN insert(b, from, new_from[1])
                                             ELSE remove(b, from),
                          new_total_supply[1])

\* --------------------------------------------------------------- events
Minted(to, value) == [kind |-> "Minted", account |-> to, value |-> value]

Burned(from, value) == [kind |-> "Burned", account |-> from, value |-> value]

Call(op, result) == [op |-> op, result |-> result]

\* ------------------------------------------------------------------ init
\* before the constructor has run: no storage exists yet
Init ==
    /\ initialized = FALSE
    /\ admins = {}
    /\ minters = {}
    /\ burners = {}
    /\ balances = EmptyMap
    /\ total_supply = 0
    /\ events = <<>>
    /\ last = Call("none", "none")
    /\ VOTING_STATE = <<>>
    /\ dao_events = <<>>
    /\ dao_last = [op |-> "none", result |-> <<"none">>]
    /\ EXTENDED_STORAGE = <<>>
    /\ owner_by_id = EmptyMap
    /\ tokens_for_owner = EmptyMap
    /\ token_approvals = EmptyMap
    /\ nft_events = <<>>
    /\ nft_last = Call("none", "none")

\* mutant: the deployer is made admin only
seed_admin_only(admin) ==
    /\ ~initialized
    /\ initialized' = TRUE
    /\ admins' = {admin}
    /\ minters' = {}
    /\ burners' = {}
    /\ balances' = EmptyMap
    /\ total_supply' = 0
    /\ events' = <<>>
    /\ last' = [op |-> "seed", result |-> "ok"]
    /\ UNCHANGED <<daoVars, nftVars>>

\* the body of ExtendedService::seed: it stores fresh role sets holding
\* admin, which is msg::source(), and VftService::seed stores a fresh ledger;
\* neither looks at what is stored already
SeedStores(admin) ==
    /\ initialized' = TRUE
    /\ admins' = {admin}
    /\ minters' = {admin}
    /\ burners' = {admin}
    /\ balances' = EmptyMap
    /\ total_supply' = 0
    /\ events' = <<>>
    /\ last' = Call("seed", "ok")
    /\ UNCHANGED <<daoVars, nftVars>>

\* ExtendedService::seed, run once by the program constructor
seed(admin) ==
    /\ ~initialized
    /\ SeedStores(admin)

\* ExtendedService::seed invoked again on the initialized program
Reseed(admin) ==
    /\ initialized
    /\ SeedStores(admin)

\* a call that panics: the message is aborted, nothing it did is kept and
\* nothing is emitted; only the outcome is observed
Panics(op, msg) ==
    /\ last' = Call(op, msg)
    /\ events' = <<>>
    /\ UNCHANGED <<initialized, admins, minters, burners, balances, total_supply>>
    /\ UNCHANGED <<daoVars, nftVars>>

\* mutant: the event is emitted whenever the primitive returns Ok
Settle_emits_on_false(op, r, ev) ==
    IF r.result \notin {"true", "false"}
    THEN Panics(op, r.result)
    ELSE /\ balances' = r.balances
         /\ total_supply' = r.total_supply
         /\ events' = <<ev>>
         /\ last' = [op |-> op, result |-> r.result]
         /\ UNCHANGED <<initialized, admins, minters, burners>>
         /\ UNCHANGED <<daoVars, nftVars>>

\* a mint/burn call that got past the role check: r is what the ledger
\* primitive returned, ev the event emitted when it returned Ok(true)
Settle(op, r, ev) ==
    IF r.result \notin {"true", "false"}
    THEN Panics(op, r.result)                       \* utils::panicking
    ELSE IF r.result = "false"
    THEN /\ last' = Call(op, "false")
         /\ events' = <<>>
         /\ UNCHANGED <<initialized, admins, minters, burners, balances, total_supply>>
         /\ UNCHANGED <<daoVars, nftVars>>
    ELSE \E delivered \in BOOLEAN :
           IF ~delivered
           THEN Panics(op, "Notification Error")    \* emit_event(..).expect
           ELSE /\ balances' = r.balances
                /\ total_supply' = r.total_supply
                /\ events' = <<ev>>
                /\ last' = Call(op, "true")
                /\ UNCHANGED <<initialized, admins, minters, burners>>
                /\ UNCHANGED <<daoVars, nftVars>>

\* ExtendedService::mint
Mint(caller, to, value) ==
    /\ initialized
    /\ IF caller \notin minters
       THEN Panics("mint", "Not allowed to mint")
       ELSE Settle("mint", mint(balances, total_supply, to, value), Minted(to, value))

\* ExtendedService::burn
Burn(caller, from, value) ==
    /\ initialized
    /\ IF caller \notin burners
       THEN Panics("burn", "Not allowed to burn")
       ELSE Settle("burn", burn(balances, total_supply, from, value), Burned(from, value))

\* mutant: the admin check lets everyone through
ensure_is_admin_any(caller) == TRUE

ensure_is_admin(caller) == caller \in admins

\* a grant/revoke call: the role sets become a, m, b when the caller is an admin
RoleCall(op, caller, a, m, b) ==
    /\ initialized
    /\ IF ~ensure_is_admin(caller)
       THEN Panics(op, "Not admin")
       ELSE /\ admins' = a
            /\ minters' = m
            /\ burners' = b
            /\ events' = <<>>
            /\ last' = Call(op, "ok")
            /\ UNCHANGED <<initialized, balances, total_supply>>
            /\ UNCHANGED <<daoVars, nftVars>>

grant_admin_role(caller, to) ==
    RoleCall("grant_admin_role", caller, admins \cup {to}, minters, burners)

\* mutant: a new minter is made a burner as well
grant_minter_role_and_burner(caller, to) ==
    RoleCall("grant_minter_role", caller, admins, minters \cup {to}, burners \cup {to})

grant_minter_role(caller, to) ==
    RoleCall("grant_minter_role", caller, admins, minters \cup {to}, burners)

\* mutant: a grant to an account that already holds the role is an error
grant_burner_role_strict(caller, to) ==
    IF to \in burners
    THEN initialized /\ Panics("grant_burner_role", "Already a burner")
    ELSE RoleCall("grant_burner_role", caller, admins, minters, burners \cup {to})

grant_burner_role(caller, to) ==
    RoleCall("grant_burner_role", caller, admins, minters, burners \cup {to})

\* mutant: an admin cannot revoke itself
revoke_admin_role_keeps_self(caller, from) ==
    RoleCall("revoke_admin_role", caller, admins \ ({from} \ {caller}), minters, burners)

revoke_admin_role(caller, from) ==
    RoleCall("revoke_admin_role", caller, admins \ {from}, minters, burners)

revoke_minter_role(caller, from) ==
    RoleCall("revoke_minter_role", caller, admins, minters \ {from}, burners)

revoke_burner_role(caller, from) ==
    RoleCall("revoke_burner_role", caller, admins, minters, burners \ {from})

\* ExtendedService::minters / burners / admins: read-only listings of a role
\* set; what they return is the set itself
Query(op) ==
    /\ initialized
    /\ last' = Call(op, "ok")
    /\ events' = <<>>
    /\ UNCHANGED <<initialized, admins, minters, burners, balances, total_supply>>
    /\ UNCHANGED <<daoVars, nftVars>>

QueryMinters == Query("minters")

QueryBurners == Query("burners")

QueryAdmins == Query("admins")

Queries == {"minters", "burners", "admins"}

Next ==
    \/ \E a \in Actors : seed(a)
    \/ \E c \in Actors, a \in Actors, v \in Amounts : Mint(c, a, v)
    \/ \E c \in Actors, a \in Actors, v \in Amounts : Burn(c, a, v)
    \/ \E c \in Actors, a \in Actors : grant_admin_role(c, a)
    \/ \E c \in Actors, a \in Actors : grant_minter_role(c, a)
    \/ \E c \in Actors, a \in Actors : grant_burner_role(c, a)
    \/ \E c \in Actors, a \in Actors : revoke_admin_role(c, a)
    \/ \E c \in Actors, a \in Actors : revoke_minter_role(c, a)
    \/ \E c \in Actors, a \in Actors : revoke_burner_role(c, a)
    \/ QueryMinters
    \/ QueryBurners
    \/ QueryAdmins

Spec == Init /\ [][Next]_vars

\* the program with seed open to a further invocation
NextReseed ==
    \/ Next
    \/ \E a \in Actors : Reseed(a)

SpecReseed == Init /\ [][NextReseed]_vars

\* ===================================================================== DAO
\* the ids votes come from and the admin is chosen among
Voters == {"A", "X", "Y"}

\* the option strings calls are made with; "" is the empty string
OptionNames == {"", "no", "yes"}

\* longest option list the constructor is given
MaxSeedOptions == 2

\* stands for u64::MAX; not below the number of voters, as in the program,
\* where has_voted cannot hold 2^64 accounts
U64_MAX == 3

RECURSIVE SeqsUpTo(_, _)
SeqsUpTo(S, n) ==
    IF n = 0 THEN {<<>>}
    ELSE LET shorter == SeqsUpTo(S, n - 1)
         IN  shorter \cup {Append(q, x) : q \in shorter, x \in S}

\* the option lists the constructor is given: empty, with and without
\* duplicates
SeedOptions == SeqsUpTo(OptionNames, MaxSeedOptions)

\* Vec::contains
contains(seq, x) == \E i \in 1..Len(seq) : seq[i] = x

Elems(seq) == {seq[i] : i \in 1..Len(seq)}

\* u64::saturating_add
saturating_add(x, y) == IF x + y > U64_MAX THEN U64_MAX ELSE x + y

\* state_ref / state_mut: the state of the initialized program
voting == VOTING_STATE[1]

\* the values of enum Events
Error(msg) == <<"Error", msg>>
VoteCast(voter, option) == <<"VoteCast", voter, option>>
VotingClosed == <<"VotingClosed">>
OptionAdded(option) == <<"OptionAdded", option>>

DaoCall(op, result) == [op |-> op, result |-> result]

\* a call that returns r without having written or emitted anything
Returns(op, r) ==
    /\ dao_last' = DaoCall(op, r)
    /\ dao_events' = <<>>
    /\ UNCHANGED VOTING_STATE
    /\ UNCHANGED <<vars, nftVars>>

\* a call that stored state st, emitted ev and returned it
Commits(op, st, ev) ==
    /\ VOTING_STATE' = <<st>>
    /\ dao_events' = <<ev>>
    /\ dao_last' = DaoCall(op, ev)
    /\ UNCHANGED <<vars, nftVars>>

\* VotingState::init
init(admin, options) ==
    [admin |-> admin,
     options |-> options,
     votes |-> [o \in Elems(options) |-> 0],
     has_voted |-> <<>>,
     voting_open |-> TRUE]

\* true when the loop of Service::seed meets an option it has seen
HasDuplicate(options) ==
    \E i \in 1..Len(options) : contains(SubSeq(options, 1, i - 1), options[i])

\* Service::seed, run by the program constructor Program::new
DaoSeed(admin, options) ==
    /\ VOTING_STATE = <<>>
    /\ IF options = <<>>
       THEN Returns("seed", <<"panic", "No voting options provided">>)
       ELSE IF HasDuplicate(options)
       THEN Returns("seed", <<"panic", "Duplicate voting options are not allowed">>)
       ELSE /\ VOTING_STATE' = <<init(admin, options)>>
            /\ dao_events' = <<>>
            /\ dao_last' = DaoCall("seed", <<"ok">>)
            /\ UNCHANGED <<vars, nftVars>>

\* mutant: votes are accepted after closing
vote_ignores_closed(sender, option) ==
    /\ VOTING_STATE # <<>>
    /\ IF contains(voting.has_voted, sender)
       THEN Returns("vote", Error("Already voted"))
       ELSE IF ~contains(voting.options, option)
       THEN Returns("vote", Error("Invalid option"))
       ELSE Commits("vote",
                    [voting EXCEPT
                        !.votes = [@ EXCEPT ![option] = saturating_add(@, 1)],
                        !.has_voted = Append(@, sender)],
                    VoteCast(sender, option))

\* mutant: an account that has voted may vote again
vote_twice(sender, option) ==
    /\ VOTING_STATE # <<>>
    /\ IF ~voting.voting_open
       THEN Returns("vote", Error("Voting is closed"))
       ELSE IF ~contains(voting.options, option)
       THEN Returns("vote", Error("Invalid option"))
       ELSE Commits("vote",
                    [voting EXCEPT
                        !.votes = [@ EXCEPT ![option] = saturating_add(@, 1)],
                        !.has_voted = Append(@, sender)],
                    VoteCast(sender, option))

\* Service::vote
vote(sender, option) ==
    /\ VOTING_STATE # <<>>
    /\ IF ~voting.voting_open
       THEN Returns("vote", Error("Voting is closed"))
       ELSE IF contains(voting.has_voted, sender)
       THEN Returns("vote", Error("Already voted"))
       ELSE IF ~contains(voting.options, option)
       THEN Returns("vote", Error("Invalid option"))
       ELSE Commits("vote",
                    [voting EXCEPT
                        !.votes = [@ EXCEPT ![option] = saturating_add(@, 1)],
                        !.has_voted = Append(@, sender)],
                    VoteCast(sender, option))

\* mutant: the empty string is accepted as an option
add_option_allows_empty(sender, option) ==
    /\ VOTING_STATE # <<>>
    /\ IF sender # voting.admin
       THEN Returns("add_option", Error("Only admin can add options"))
       ELSE IF ~voting.voting_open
       THEN Returns("add_option", Error("Voting must be open"))
       ELSE IF contains(voting.options, option)
       THEN Returns("add_option", Error("Option already exists"))
       ELSE Commits("add_option",
                    [voting EXCEPT
                        !.options = Append(@, option),
                        !.votes = [o \in DOMAIN @ \cup {option} |->
                                      IF o = option THEN 0 ELSE @[o]]],
                    OptionAdded(option))

\* mutant: an option that exists is added again
add_option_no_exists_check(sender, option) ==
    /\ VOTING_STATE # <<>>
    /\ IF sender # voting.admin
       THEN Returns("add_option", Error("Only admin can add options"))
       ELSE IF ~voting.voting_open
       THEN Returns("add_option", Error("Voting must be open"))
       ELSE IF option = ""
       THEN Returns("add_option", Error("Option cannot be empty"))
       ELSE Commits("add_option",
                    [voting EXCEPT
                        !.options = Append(@, option),
                        !.votes = [o \in DOMAIN @ \cup {option} |->
                                      IF o = option THEN 0 ELSE @[o]]],
                    OptionAdded(option))

\* Service::add_option
add_option(sender, option) ==
    /\ VOTING_STATE # <<>>
    /\ IF sender # voting.admin
       THEN Returns("add_option", Error("Only admin can add options"))
       ELSE IF ~voting.voting_open
       THEN Returns("add_option", Error("Voting must be open"))
       ELSE IF option = ""
       THEN Returns("add_option", Error("Option cannot be empty"))
       ELSE IF contains(voting.options, option)
       THEN Returns("add_option", Error("Option already exists"))
       ELSE Commits("add_option",
                    [voting EXCEPT
                        !.options = Append(@, option),
                        !.votes = [o \in DOMAIN @ \cup {option} |->
                                      IF o = option THEN 0 ELSE @[o]]],
                    OptionAdded(option))

\* mutant: the admin's call flips voting_open
close_voting_toggles(sender) ==
    /\ VOTING_STATE # <<>>
    /\ IF sender # voting.admin
       THEN Returns("close_voting", Error("Only admin can close voting"))
       ELSE Commits("close_voting",
                    [voting EXCEPT !.voting_open = ~@],
                    VotingClosed)

\* Service::close_voting
close_voting(sender) ==
    /\ VOTING_STATE # <<>>
    /\ IF sender # voting.admin
       THEN Returns("close_voting", Error("Only admin can close voting"))
       ELSE IF ~voting.voting_open
       THEN Returns("close_voting", Error("Voting already closed"))
       ELSE Commits("close_voting",
                    [voting EXCEPT !.voting_open = FALSE],
                    VotingClosed)

\* Service::query_results / query_options / query_voting_open / query_state:
\* read-only views of the state
DaoQuery(op) ==
    /\ VOTING_STATE # <<>>
    /\ Returns(op, <<"ok">>)

query_results == DaoQuery("query_results")

query_options == DaoQuery("query_options")

query_voting_open == DaoQuery("query_voting_open")

query_state == DaoQuery("query_state")

DaoNext ==
    \/ \E a \in Voters, o \in SeedOptions : DaoSeed(a, o)
    \/ \E c \in Voters, o \in OptionNames : vote(c, o)
    \/ \E c \in Voters, o \in OptionNames : add_option(c, o)
    \/ \E c \in Voters : close_voting(c)
    \/ query_results
    \/ query_options
    \/ query_voting_open
    \/ query_state

SpecDAO == Init /\ [][DaoNext]_daoVars

\* -------------------------------------------------------- the VNFT program
\* the largest TokenId (stands for U256::MAX of the token id counter): two
\* tokens can be minted before the counter overflows
MaxTokenId == 2
TokenIds == 0..MaxTokenId

\* the TokenMetadata values a mint is called with
Metadatas == {"m1", "m2"}

\* TokenId::checked_add
checked_add_id(x, y) == IF x + y > MaxTokenId THEN None ELSE Some(x + y)

\* ExtendedStorage of the initialized program
ext == EXTENDED_STORAGE[1]

ExtendedStorage(token_id, m, b, a, metadata) ==
    [token_id |-> token_id, minters |-> m, burners |-> b, admins |-> a,
     token_metadata_by_id |-> metadata]

\* Event::Minted and Event::Burned
NftMinted(to, token_metadata) ==
    [kind |-> "Minted", to |-> to, token_metadata |-> token_metadata]

NftBurned(from, token_id) ==
    [kind |-> "Burned", from |-> from, token_id |-> token_id]

\* what a registry primitive leaves in the four maps and the counter
NftOutcome(res, obi, tfo, apr, meta, tid) ==
    [result |-> res, owner_by_id |-> obi, tokens_for_owner |-> tfo,
     token_approvals |-> apr, token_metadata_by_id |-> meta, token_id |-> tid]

\* tokens_for_owner.entry(to).or_insert_with(HashSet::new).insert(token_id)
entry_insert(tfo, to, token_id) ==
    insert(tfo, to, (IF to \in DOMAIN tfo THEN tfo[to] ELSE {}) \cup {token_id})

\* mutant: the metadata of the new token is not stored
nft_mint_no_metadata(obi, tfo, meta, token_id, to, token_metadata) ==
    IF token_id \in DOMAIN meta
    THEN NftOutcome("Token already exists", obi, tfo, <<>>, meta, token_id)
    ELSE LET next == checked_add_id(token_id, 1)
         IN  IF next = None
             THEN NftOutcome("TokenId overflow", obi, tfo, <<>>, meta, token_id)
             ELSE NftOutcome("ok", insert(obi, token_id, to),
                             entry_insert(tfo, to, token_id), <<>>,
                             meta, next[1])

\* the free function mint: a panic aborts the message, so the inserts made
\* before the overflow panic are not kept
nft_mint(obi, tfo, meta, token_id, to, token_metadata) ==
    IF token_id \in DOMAIN meta
    THEN NftOutcome("Token already exists", obi, tfo, <<>>, meta, token_id)
    ELSE LET next == checked_add_id(token_id, 1)
         IN  IF next = None
             THEN NftOutcome("TokenId overflow", obi, tfo, <<>>, meta, token_id)
             ELSE NftOutcome("ok", insert(obi, token_id, to),
                             entry_insert(tfo, to, token_id), <<>>,
                             insert(meta, token_id, token_metadata), next[1])

\* tokens.remove(&token_id), then the owner's entry is dropped when empty
owner_remove(tfo, owner, token_id) ==
    IF owner \notin DOMAIN tfo THEN tfo
    ELSE IF tfo[owner] \ {token_id} = {} THEN remove(tfo, owner)
    ELSE insert(tfo, owner, tfo[owner] \ {token_id})

\* mutant: an owner left without tokens keeps its (empty) entry
nft_burn_keeps_empty_owner(obi, tfo, apr, meta, token_id) ==
    IF token_id \notin DOMAIN obi
    THEN NftOutcome("TokenDoesNotExist", obi, tfo, apr, meta, 0)
    ELSE LET owner == obi[token_id]
         IN  NftOutcome("ok", remove(obi, token_id),
                        IF owner \in DOMAIN tfo
                        THEN insert(tfo, owner, tfo[owner] \ {token_id})
                        ELSE tfo,
                        remove(apr, token_id), remove(meta, token_id), 0)

\* mutant: the metadata of the burned token is kept
nft_burn_keeps_metadata(obi, tfo, apr, meta, token_id) ==
    IF token_id \notin DOMAIN obi
    THEN NftOutcome("TokenDoesNotExist", obi, tfo, apr, meta, 0)
    ELSE NftOutcome("ok", remove(obi, token_id),
                    owner_remove(tfo, obi[token_id], token_id),
                    remove(apr, token_id), meta, 0)

\* the free function burn (it does not touch the counter)
nft_burn(obi, tfo, apr, meta, token_id) ==
    IF token_id \notin DOMAIN obi
    THEN NftOutcome("TokenDoesNotExist", obi, tfo, apr, meta, 0)
    ELSE NftOutcome("ok", remove(obi, token_id),
                    owner_remove(tfo, obi[token_id], token_id),
                    remove(apr, token_id), remove(meta, token_id), 0)

\* ExtendedService::seed, run once by the program constructor: fresh role
\* sets holding admin (msg::source()), counter 0, no metadata; VnftService::init
\* stores a fresh Storage
NftSeed(admin) ==
    /\ EXTENDED_STORAGE = <<>>
    /\ EXTENDED_STORAGE' = <<ExtendedStorage(0, {admin}, {admin}, {admin}, EmptyMap)>>
    /\ owner_by_id' = EmptyMap
    /\ tokens_for_owner' = EmptyMap
    /\ token_approvals' = EmptyMap
    /\ nft_events' = <<>>
    /\ nft_last' = Call("seed", "ok")
    /\ UNCHANGED <<vars, daoVars>>

\* a call that panics: nothing it did is kept and nothing is emitted
NftPanics(op, msg) ==
    /\ nft_last' = Call(op, msg)
    /\ nft_events' = <<>>
    /\ UNCHANGED <<EXTENDED_STORAGE, owner_by_id, tokens_for_owner, token_approvals>>
    /\ UNCHANGED <<vars, daoVars>>

\* a mint/burn call that got past the role check: r is what the primitive
\* left, tid the counter to store, ev the event handed to emit_event
NftSettle(op, r, tid, ev) ==
    IF r.result # "ok"
    THEN NftPanics(op, r.result)                        \* utils::panicking
    ELSE \E delivered \in BOOLEAN :
           IF ~delivered
           THEN NftPanics(op, "Notification Error")     \* emit_event(..).expect
           ELSE /\ EXTENDED_STORAGE' =
                      <<ExtendedStorage(tid, ext.minters, ext.burners, ext.admins,
                                        r.token_metadata_by_id)>>
                /\ owner_by_id' = r.owner_by_id
                /\ tokens_for_owner' = r.tokens_for_owner
                /\ token_approvals' = IF op = "burn" THEN r.token_approvals
                                      ELSE token_approvals
                /\ nft_events' = <<ev>>
                /\ nft_last' = Call(op, "ok")
                /\ UNCHANGED <<vars, daoVars>>

\* ExtendedService::mint
NftMint(caller, to, token_metadata) ==
    /\ EXTENDED_STORAGE # <<>>
    /\ IF caller \notin ext.minters
       THEN NftPanics("mint", "Not allowed to mint")
       ELSE LET r == nft_mint(owner_by_id, tokens_for_owner,
                              ext.token_metadata_by_id, ext.token_id,
                              to, token_metadata)
            IN  NftSettle("mint", r, r.token_id, NftMinted(to, token_metadata))

\* ExtendedService::burn; from is only copied into the event
NftBurn(caller, from, token_id) ==
    /\ EXTENDED_STORAGE # <<>>
    /\ IF caller \notin ext.burners
       THEN NftPanics("burn", "Not allowed to burn")
       ELSE LET r == nft_burn(owner_by_id, tokens_for_owner, token_approvals,
                              ext.token_metadata_by_id, token_id)
            IN  NftSettle("burn", r, ext.token_id, NftBurned(from, token_id))

\* a grant/revoke call: the role sets become a, m, b when the caller is an admin
NftRoleCall(op, caller, a, m, b) ==
    /\ EXTENDED_STORAGE # <<>>
    /\ IF caller \notin ext.admins                      \* ensure_is_admin
       THEN NftPanics(op, "Not admin")
       ELSE /\ EXTENDED_STORAGE' =
                  <<ExtendedStorage(ext.token_id, m, b, a, ext.token_metadata_by_id)>>
            /\ nft_events' = <<>>
            /\ nft_last' = Call(op, "ok")
            /\ UNCHANGED <<owner_by_id, tokens_for_owner, token_approvals>>
            /\ UNCHANGED <<vars, daoVars>>

nft_grant_admin_role(caller, to) ==
    NftRoleCall("grant_admin_role", caller, ext.admins \cup {to}, ext.minters, ext.burners)

nft_grant_minter_role(caller, to) ==
    NftRoleCall("grant_minter_role", caller, ext.admins, ext.minters \cup {to}, ext.burners)

nft_grant_burner_role(caller, to) ==
    NftRoleCall("grant_burner_role", caller, ext.admins, ext.minters, ext.burners \cup {to})

nft_revoke_admin_role(caller, from) ==
    NftRoleCall("revoke_admin_role", caller, ext.admins \ {from}, ext.minters, ext.burners)

nft_revoke_minter_role(caller, from) ==
    NftRoleCall("revoke_minter_role", caller, ext.admins, ext.minters \ {from}, ext.burners)

nft_revoke_burner_role(caller, from) ==
    NftRoleCall("revoke_burner_role", caller, ext.admins, ext.minters, ext.burners \ {from})

\* the read-only methods: minters, burners, admins, token_id,
\* token_metadata_by_id, tokens_for_owner
NftQueries ==
    {"minters", "burners", "admins", "token_id", "token_metadata_by_id",
     "tokens_for_owner"}

NftQuery(op) ==
    /\ EXTENDED_STORAGE # <<>>
    /\ nft_last' = Call(op, "ok")
    /\ nft_events' = <<>>
    /\ UNCHANGED <<EXTENDED_STORAGE, owner_by_id, tokens_for_owner, token_approvals>>
    /\ UNCHANGED <<vars, daoVars>>

NftNext ==
    \/ \E a \in Actors : NftSeed(a)
    \/ \E c \in Actors, to \in Actors, md \in Metadatas : NftMint(c, to, md)
    \/ \E c \in Actors, from \in Actors, t \in TokenIds : NftBurn(c, from, t)
    \/ \E c \in Actors, to \in Actors : nft_grant_admin_role(c, to)
    \/ \E c \in Actors, to \in Actors : nft_grant_minter_role(c, to)
    \/ \E c \in Actors, to \in Actors : nft_grant_burner_role(c, to)
    \/ \E c \in Actors, from \in Actors : nft_revoke_admin_role(c, from)
    \/ \E c \in Actors, from \in Actors : nft_revoke_minter_role(c, from)
    \/ \E c \in Actors, from \in Actors : nft_revoke_burner_role(c, from)
    \/ \E q \in NftQueries : NftQuery(q)

SpecVNFT == Init /\ [][NftNext]_nftVars

\* ------------------------------------------------------------ properties
Ledger == <<balances, total_supply>>
Roles == <<admins, minters, burners>>

\* C1: in every reachable state total_supply is the sum of the values stored
\* in the balance map.
C1_Conservation == total_supply = SumBalances(balances)

\* two accounts hold tokens after a successful burn that left some supply
C1_Witness ==
    /\ last = Call("burn", "true")
    /\ DOMAIN balances = Actors
    /\ total_supply > 0

Refused(msg) ==
    /\ last'.result = msg
    /\ events' = <<>>
    /\ UNCHANGED <<Ledger, Roles>>

IsRoleCall(c, a) ==
    \/ grant_admin_role(c, a) \/ grant_minter_role(c, a)
    \/ grant_burner_role(c, a) \/ revoke_admin_role(c, a)
    \/ revoke_minter_role(c, a) \/ revoke_burner_role(c, a)

\* C2: a call by a caller outside the required role set (minters for mint,
\* burners for burn, admins for the six grant/revoke methods) fails as not
\* authorized, emits no event and leaves the ledger and the role sets as
\* they were.
C2_Step ==
    /\ last'.op = "mint" =>
          \A c \in Actors \ minters : \A a \in Actors, v \in Amounts :
              Mint(c, a, v) => Refused("Not allowed to mint")
    /\ last'.op = "burn" =>
          \A c \in Actors \ burners : \A a \in Actors, v \in Amounts :
              Burn(c, a, v) => Refused("Not allowed to burn")
    /\ last'.op \notin {"mint", "burn", "seed"} \cup Queries =>
          \A c \in Actors \ admins : \A a \in Actors :
              IsRoleCall(c, a) => Refused("Not admin")

C2_AuthorizationGating == [][C2_Step]_vars

\* a non-admin's grant has just been refused while tokens exist
C2_Witness ==
    /\ last = Call("grant_minter_role", "Not admin")
    /\ admins # Actors
    /\ total_supply > 0

\* the state right after a successful burn of everything x held, which was
\* also the whole supply (mint to x, then burn the same amount from x)
JustBurnedOut(x) ==
    /\ last = Call("burn", "true")
    /\ Len(events) = 1
    /\ events[1].kind = "Burned"
    /\ events[1].account = x
    /\ total_supply = 0
    /\ x \notin DOMAIN balances

SecondBurnFailsWith(err) ==
    (last'.op = "burn" /\ \E x \in Actors : JustBurnedOut(x)) =>
        \A c \in burners, x \in Actors :
            (JustBurnedOut(x) /\ Burn(c, x, 1)) =>
                /\ last' = Call("burn", err)
                /\ UNCHANGED <<Ledger, Roles>>

\* C3 as stated: after mint to X and a burn of the same amount from X, a
\* burn of 1 from X by a burner fails with InsufficientBalance.
C3_AsStated == [][SecondBurnFailsWith("InsufficientBalance")]_vars

\* C3: after mint to X and a burn of the same amount from X (total_supply 0,
\* X absent from the map), a burn of 1 from X by a burner fails with
\* Underflow, the supply check coming first, and leaves the state unchanged.
C3_SecondBurnUnderflow == [][SecondBurnFailsWith("Underflow")]_vars

\* the refused burn on the emptied ledger
C3_Witness ==
    /\ last = Call("burn", "Underflow")
    /\ total_supply = 0
    /\ balances = EmptyMap
    /\ burners # {}

ZeroAmountStep(mintResult(_), burnResult(_)) ==
    /\ last'.op = "mint" =>
          \A c \in Actors, a \in Actors :
              Mint(c, a, 0) =>
                  /\ last'.result = mintResult(c)
                  /\ events' = <<>>
                  /\ UNCHANGED <<Ledger, Roles>>
    /\ last'.op = "burn" =>
          \A c \in Actors, a \in Actors :
              Burn(c, a, 0) =>
                  /\ last'.result = burnResult(c)
                  /\ events' = <<>>
                  /\ UNCHANGED <<Ledger, Roles>>

AlwaysFalse(c) == "false"
MintZeroResult(c) == IF c \in minters THEN "false" ELSE "Not allowed to mint"
BurnZeroResult(c) == IF c \in burners THEN "false" ELSE "Not allowed to burn"

\* C4 as stated: mint and burn of amount 0 return false whoever calls.
C4_AsStated == [][ZeroAmountStep(AlwaysFalse, AlwaysFalse)]_vars

\* C4: mint and burn of amount 0 emit no event and change no state; they
\* return false when the caller holds the minter (burner) role and fail as
\* not authorized when it does not.
C4_ZeroAmount == [][ZeroAmountStep(MintZeroResult, BurnZeroResult)]_vars

\* a zero-amount burn has returned false on a ledger that holds tokens
C4_Witness ==
    /\ last = Call("burn", "false")
    /\ total_supply > 0

\* C5: a mint of a non-zero amount by a minter that would take total_supply
\* or the receiver's balance past the maximum fails with NumericOverflow,
\* emits nothing and changes neither the balance map nor total_supply.
C5_Step ==
    last'.op = "mint" =>
        \A c \in minters, a \in Actors :
            \A v \in {w \in Amounts \ {0} :
                         \/ total_supply + w > U256_MAX
                         \/ balance_of(balances, a) + w > U256_MAX} :
                Mint(c, a, v) => Refused("NumericOverflow")

C5_MintOverflow == [][C5_Step]_vars

\* a mint has been refused for overflow although the receiver itself holds
\* nothing: the supply was the limit
C5_Witness ==
    /\ last = Call("mint", "NumericOverflow")
    /\ total_supply > 0
    /\ DOMAIN balances # Actors

\* C6: a burn of a non-zero amount by a burner fails with Underflow when the
\* amount exceeds total_supply, and with InsufficientBalance when it does
\* not but exceeds the account's balance; either way nothing is emitted or
\* changed, and no balance or supply is ever negative.
C6_Step ==
    /\ total_supply' >= 0
    /\ \A a \in DOMAIN balances' : balances'[a] >= 0
    /\ last'.op = "burn" =>
          \A c \in burners, a \in Actors :
              /\ \A v \in {w \in Amounts \ {0} : w > total_supply} :
                    Burn(c, a, v) => Refused("Underflow")
              /\ \A v \in {w \in Amounts \ {0} :
                               w <= total_supply /\ w > balance_of(balances, a)} :
                    Burn(c, a, v) => Refused("InsufficientBalance")

C6_BurnFailures == [][C6_Step]_vars

\* a burn has been refused because the account, not the supply, was short
C6_Witness ==
    /\ last = Call("burn", "InsufficientBalance")
    /\ total_supply > 0

\* C7: every key of the balance map has a non-zero balance; a burn that
\* brings a balance to zero removes the key.
C7_NoZeroEntries == \A a \in DOMAIN balances : balances[a] # 0

\* a burn has just emptied one account while another still holds tokens
C7_Witness ==
    /\ last = Call("burn", "true")
    /\ Len(events) = 1
    /\ events[1].account \notin DOMAIN balances
    /\ balances # EmptyMap

OthersKept(a) ==
    \A o \in Actors \ {a} : balance_of(balances', o) = balance_of(balances, o)

\* C8: a successful mint of v > 0 raises total_supply and the receiver's
\* balance by exactly v, a successful burn lowers total_supply and the
\* account's balance by exactly v, neither touches another account, and
\* nothing else ever changes total_supply.
C8_Step ==
    /\ last' = Call("mint", "true") =>
          \A c \in Actors, a \in Actors, v \in Amounts :
              Mint(c, a, v) =>
                  /\ v > 0
                  /\ total_supply' = total_supply + v
                  /\ balance_of(balances', a) = balance_of(balances, a) + v
                  /\ OthersKept(a)
    /\ last' = Call("burn", "true") =>
          \A c \in Actors, a \in Actors, v \in Amounts :
              Burn(c, a, v) =>
                  /\ v > 0
                  /\ total_supply' = total_supply - v
                  /\ balance_of(balances', a) = balance_of(balances, a) - v
                  /\ OthersKept(a)
    /\ (total_supply' # total_supply \/ balances' # balances) =>
          (last'.op \in {"mint", "burn"} /\ last'.result = "true")

C8_MutationEffect == [][C8_Step]_vars

\* a mint has just added to an account that already held tokens, beside
\* another holder
C8_Witness ==
    /\ last = Call("mint", "true")
    /\ Len(events) = 1
    /\ events[1].account \in DOMAIN balances
    /\ balances[events[1].account] > events[1].value
    /\ DOMAIN balances = Actors

\* C9: a mint or burn call that returns true emits exactly one event,
\* Minted{to, value} or Burned{from, value} with the call's account and
\* amount; a call that returns false or fails, and every grant, revoke and
\* query, emits none.  events holds what the call handed to the sink, so
\* "grows by one event" reads "events has exactly that one event".
C9_Step ==
    /\ last' = Call("mint", "true") =>
          \A c \in Actors, a \in Actors, v \in Amounts :
              Mint(c, a, v) => events' = <<Minted(a, v)>>
    /\ last' = Call("burn", "true") =>
          \A c \in Actors, a \in Actors, v \in Amounts :
              Burn(c, a, v) => events' = <<Burned(a, v)>>
    /\ (last'.op \notin {"mint", "burn"} \/ last'.result # "true") => events' = <<>>

C9_EventEmission == [][C9_Step]_vars

\* a burn has emitted its Burned event
C9_Witness ==
    /\ last = Call("burn", "true")
    /\ \E a \in Actors, v \in Amounts \ {0} : events = <<Burned(a, v)>>

RoleOps == {"grant_admin_role", "grant_minter_role", "grant_burner_role",
            "revoke_admin_role", "revoke_minter_role", "revoke_burner_role"}

\* C12: when the only admin revokes its own admin role the call succeeds and
\* leaves admins empty; from a state with no admin every grant and revoke
\* fails as not authorized and the three role sets never change again.
C12_Step ==
    /\ last'.op = "revoke_admin_role" =>
          \A c \in Actors :
              (admins = {c} /\ revoke_admin_role(c, c)) =>
                  (last'.result = "ok" /\ admins' = {})
    /\ (initialized /\ admins = {}) =>
          /\ admins' = {}
          /\ UNCHANGED Roles
          /\ last'.op \in RoleOps => Refused("Not admin")

C12_AdminLockout == [][C12_Step]_vars

\* a grant has been refused in a state that has no admin left, while a
\* minter still holds its role
C12_Witness ==
    /\ initialized
    /\ admins = {}
    /\ minters # {}
    /\ last = Call("grant_admin_role", "Not admin")

RoleEffect(c, a, m, b) ==
    /\ c \in admins
    /\ admins' = a
    /\ minters' = m
    /\ burners' = b
    /\ UNCHANGED Ledger

\* C13: after construction the role sets change only in a grant or revoke
\* call made by a current admin; such a call adds or removes only the named
\* account in only the named role set and leaves the other two sets, the
\* balance map and total_supply unchanged; mint and burn change no role set.
C13_Step ==
    /\ (initialized /\ Roles' # Roles) => (last'.op \in RoleOps /\ last'.result = "ok")
    /\ last'.op \in {"mint", "burn"} => UNCHANGED Roles
    /\ last' = Call("grant_admin_role", "ok") =>
          \A c \in Actors, a \in Actors : grant_admin_role(c, a) =>
              RoleEffect(c, admins \cup {a}, minters, burners)
    /\ last' = Call("grant_minter_role", "ok") =>
          \A c \in Actors, a \in Actors : grant_minter_role(c, a) =>
              RoleEffect(c, admins, minters \cup {a}, burners)
    /\ last' = Call("grant_burner_role", "ok") =>
          \A c \in Actors, a \in Actors : grant_burner_role(c, a) =>
              RoleEffect(c, admins, minters, burners \cup {a})
    /\ last' = Call("revoke_admin_role", "ok") =>
          \A c \in Actors, a \in Actors : revoke_admin_role(c, a) =>
              RoleEffect(c, admins \ {a}, minters, burners)
    /\ last' = Call("revoke_minter_role", "ok") =>
          \A c \in Actors, a \in Actors : revoke_minter_role(c, a) =>
              RoleEffect(c, admins, minters \ {a}, burners)
    /\ last' = Call("revoke_burner_role", "ok") =>
          \A c \in Actors, a \in Actors : revoke_burner_role(c, a) =>
              RoleEffect(c, admins, minters, burners \ {a})

C13_RoleFrame == [][C13_Step]_vars

\* a minter role has just been granted to an account that holds no other
\* role, while the deployer is in all three sets and tokens exist
C13_Witness ==
    /\ last = Call("grant_minter_role", "ok")
    /\ \E a \in Actors : a \in minters /\ a \notin admins /\ a \notin burners
    /\ \E a \in Actors : a \in admins /\ a \in minters /\ a \in burners
    /\ total_supply > 0

\* a grant of a role the account holds, or a revoke of one it does not hold
Redundant(has, op(_, _), grants) ==
    /\ \A c \in Actors, a \in Actors :
          (op(c, a) /\ (a \in has <=> grants)) =>
              /\ UNCHANGED <<Roles, Ledger>>
              /\ c \in admins => last'.result = "ok"

\* C14: for an admin caller a grant of a role to an account that holds it,
\* and a revoke of a role from an account that does not, succeed and leave
\* the role sets unchanged; a successful grant leaves the account in the
\* set and a successful revoke leaves it out, so the same call applied a
\* second time changes nothing.
C14_Step ==
    /\ last'.op = "grant_admin_role" =>
          /\ Redundant(admins, grant_admin_role, TRUE)
          /\ \A c \in Actors, a \in Actors :
                (grant_admin_role(c, a) /\ last'.result = "ok") => a \in admins'
    /\ last'.op = "grant_minter_role" =>
          /\ Redundant(minters, grant_minter_role, TRUE)
          /\ \A c \in Actors, a \in Actors :
                (grant_minter_role(c, a) /\ last'.result = "ok") => a \in minters'
    /\ last'.op = "grant_burner_role" =>
          /\ Redundant(burners, grant_burner_role, TRUE)
          /\ \A c \in Actors, a \in Actors :
                (grant_burner_role(c, a) /\ last'.result = "ok") => a \in burners'
    /\ last'.op = "revoke_admin_role" =>
          /\ Redundant(admins, revoke_admin_role, FALSE)
          /\ \A c \in Actors, a \in Actors :
                (revoke_admin_role(c, a) /\ last'.result = "ok") => a \notin admins'
    /\ last'.op = "revoke_minter_role" =>
          /\ Redundant(minters, revoke_minter_role, FALSE)
          /\ \A c \in Actors, a \in Actors :
                (revoke_minter_role(c, a) /\ last'.result = "ok") => a \notin minters'
    /\ last'.op = "revoke_burner_role" =>
          /\ Redundant(burners, revoke_burner_role, FALSE)
          /\ \A c \in Actors, a \in Actors :
                (revoke_burner_role(c, a) /\ last'.result = "ok") => a \notin burners'

C14_Idempotence == [][C14_Step]_vars

\* a grant of the burner role has succeeded with both accounts burners, so
\* that whoever it named, a second grant of it finds the role held
C14_Witness ==
    /\ last = Call("grant_burner_role", "ok")
    /\ burners = Actors
    /\ admins # {}

\* C18: no account holds more than total_supply; so when a burn fails with
\* Underflow (amount above total_supply) the amount is above the account's
\* balance too: the supply check, made first, hides InsufficientBalance in
\* exactly those calls.
C18_Bound == \A a \in Actors : balance_of(balances, a) <= total_supply

C18_Step ==
    last'.op = "burn" =>
        \A c \in burners, a \in Actors, v \in Amounts \ {0} :
            Burn(c, a, v) =>
                /\ last'.result = "Underflow" <=> v > total_supply
                /\ last'.result = "InsufficientBalance" <=>
                       (v <= total_supply /\ v > balance_of(balances, a))
                /\ v > total_supply => v > balance_of(balances, a)

C18_PerAccountBound == [](C18_Bound) /\ [][C18_Step]_vars

\* a burn has failed with Underflow from an account that holds tokens
C18_Witness ==
    /\ last = Call("burn", "Underflow")
    /\ balances # EmptyMap

\* C11: seed invoked on an already initialized program is rejected: it does
\* not succeed and it neither replaces nor resets the role sets and the
\* ledger.
C11_Step ==
    (initialized /\ last'.op = "seed") =>
        /\ last'.result # "ok"
        /\ UNCHANGED <<Roles, Ledger>>

IsError(r) == r[1] = "Error"

\* C15: once voting_open is false it is false in every later state; a
\* further close_voting by the admin returns Error "Voting already closed",
\* a close_voting by anyone else returns an Error and closes nothing, and
\* the admin's close_voting of an open voting closes it.
C15_Step ==
    VOTING_STATE # <<>> =>
        /\ VOTING_STATE' # <<>>
        /\ ~voting.voting_open => ~voting'.voting_open
        /\ dao_last'.op = "close_voting" =>
              \A c \in Voters : close_voting(c) =>
                  /\ c # voting.admin =>
                        /\ IsError(dao_last'.result)
                        /\ UNCHANGED VOTING_STATE
                  /\ (c = voting.admin /\ ~voting.voting_open) =>
                        /\ dao_last'.result = Error("Voting already closed")
                        /\ UNCHANGED VOTING_STATE
                  /\ (c = voting.admin /\ voting.voting_open) =>
                        /\ dao_last'.result = VotingClosed
                        /\ ~voting'.voting_open

C15_ClosureIrreversible == [][C15_Step]_daoVars

\* the admin has tried to close a voting that is closed and holds votes
C15_Witness ==
    /\ VOTING_STATE # <<>>
    /\ ~voting.voting_open
    /\ voting.has_voted # <<>>
    /\ dao_last = DaoCall("close_voting", Error("Voting already closed"))

VoteRefused(c, o) ==
    \/ ~voting.voting_open
    \/ contains(voting.has_voted, c)
    \/ ~contains(voting.options, o)

\* C16: a vote returns an Error, changes no state and emits nothing when
\* voting is closed, the sender has voted or the option is not listed;
\* otherwise it raises that option's count by one, leaves the other counts,
\* appends the sender to has_voted and emits VoteCast.  No count changes
\* once voting is closed.
C16_Step ==
    VOTING_STATE # <<>> =>
        /\ ~voting.voting_open => voting'.votes = voting.votes
        /\ dao_last'.op = "vote" =>
              \A c \in Voters, o \in OptionNames : vote(c, o) =>
                  IF VoteRefused(c, o)
                  THEN /\ IsError(dao_last'.result)
                       /\ dao_events' = <<>>
                       /\ UNCHANGED VOTING_STATE
                  ELSE /\ dao_last'.result = VoteCast(c, o)
                       /\ dao_events' = <<VoteCast(c, o)>>
                       /\ DOMAIN voting'.votes = DOMAIN voting.votes
                       /\ voting'.votes[o] = voting.votes[o] + 1
                       /\ \A p \in DOMAIN voting.votes \ {o} :
                             voting'.votes[p] = voting.votes[p]
                       /\ voting'.has_voted = Append(voting.has_voted, c)
                       /\ voting'.options = voting.options
                       /\ voting'.admin = voting.admin
                       /\ voting'.voting_open

AddRefused(c, o) ==
    \/ c # voting.admin
    \/ ~voting.voting_open
    \/ o = ""
    \/ contains(voting.options, o)

\* C17: add_option by a non-admin, after closing, with the empty string or
\* with an option that exists returns an Error and leaves options and votes
\* unchanged; otherwise it appends the option with count 0 and leaves the
\* existing counts.  Options and the keys of votes change in no other call.
C17_Step ==
    VOTING_STATE # <<>> =>
        /\ (voting'.options # voting.options
              \/ DOMAIN voting'.votes # DOMAIN voting.votes) =>
              dao_last'.op = "add_option"
        /\ dao_last'.op = "add_option" =>
              \A c \in Voters, o \in OptionNames : add_option(c, o) =>
                  IF AddRefused(c, o)
                  THEN /\ IsError(dao_last'.result)
                       /\ dao_events' = <<>>
                       /\ UNCHANGED VOTING_STATE
                  ELSE /\ dao_last'.result = OptionAdded(o)
                       /\ voting'.options = Append(voting.options, o)
                       /\ DOMAIN voting'.votes = DOMAIN voting.votes \cup {o}
                       /\ voting'.votes[o] = 0
                       /\ \A p \in DOMAIN voting.votes :
                             voting'.votes[p] = voting.votes[p]

C17_AddOption == [][C17_Step]_daoVars

\* an option has just been added beside one that holds votes
C17_Witness ==
    /\ VOTING_STATE # <<>>
    /\ dao_last.op = "add_option"
    /\ dao_last.result[1] = "OptionAdded"
    /\ voting.votes[dao_last.result[2]] = 0
    /\ \E p \in DOMAIN voting.votes : voting.votes[p] > 0

NoDuplicate(seq) == \A i, j \in 1..Len(seq) : seq[i] = seq[j] => i = j

\* C19: has_voted holds no account twice, and while no count stands at the
\* u64 maximum the counts add up to the number of accounts in has_voted.
C19_TallyConsistent ==
    VOTING_STATE # <<>> =>
        /\ NoDuplicate(voting.has_voted)
        /\ (\A o \in DOMAIN voting.votes : voting.votes[o] < U64_MAX) =>
              SumOver(voting.votes, DOMAIN voting.votes) = Len(voting.has_voted)

\* all three accounts have voted, for more than one option
C19_Witness ==
    /\ VOTING_STATE # <<>>
    /\ Len(voting.has_voted) = 3
    /\ \A o \in DOMAIN voting.votes : voting.votes[o] < U64_MAX
    /\ \E o \in DOMAIN voting.votes : voting.votes[o] = 2

IsPrefix(p, q) == Len(p) <= Len(q) /\ SubSeq(q, 1, Len(p)) = p

C20_Aligned ==
    VOTING_STATE # <<>> =>
        /\ NoDuplicate(voting.options)
        /\ DOMAIN voting.votes = Elems(voting.options)

C20_Step ==
    VOTING_STATE # <<>> =>
        /\ VOTING_STATE' # <<>>
        /\ voting'.admin = voting.admin
        /\ IsPrefix(voting.options, voting'.options)

\* C20: after a successful seed the options list holds no duplicate, the
\* keys of votes are the options, the admin never changes and options are
\* only appended, never removed.
C20_OptionsAligned == [](C20_Aligned) /\ [][C20_Step]_daoVars

\* a third option has been added to a seeded list of two
C20_Witness ==
    /\ VOTING_STATE # <<>>
    /\ Len(voting.options) = 3
    /\ dao_last.op = "add_option"
    /\ voting.has_voted # <<>>

\* ------------------------------------------------------ VNFT properties
\* C21: in every state reached from initialization by ExtendedService calls,
\* owner_by_id and token_metadata_by_id have the same keys, a token t is in
\* tokens_for_owner[o] exactly when owner_by_id[t] = o, and no owner in
\* tokens_for_owner has an empty token set.
C21_MapConsistency ==
    EXTENDED_STORAGE # <<>> =>
        /\ DOMAIN owner_by_id = DOMAIN ext.token_metadata_by_id
        /\ \A o \in Actors, t \in TokenIds :
               (o \in DOMAIN tokens_for_owner /\ t \in tokens_for_owner[o])
                   <=> (t \in DOMAIN owner_by_id /\ owner_by_id[t] = o)
        /\ \A o \in DOMAIN tokens_for_owner : tokens_for_owner[o] # {}

\* both tokens were minted and a burn has just removed token 0, leaving X as
\* the only owner, of token 1
C21_Witness ==
    /\ nft_last = Call("burn", "ok")
    /\ ext.token_id = MaxTokenId
    /\ DOMAIN owner_by_id = {1}
    /\ DOMAIN tokens_for_owner = {"X"}
    /\ tokens_for_owner["X"] = {1}

====
